---- MODULE Spec2Model ----
(***************************************************************************)
(* Model of oommfc/script/util.py: the serializers that turn a parameter   *)
(* (spatial field, region mapping, constant) into a MIF text fragment, a   *)
(* symbolic reference and, for spatial fields, a data file.                *)
(*                                                                         *)
(* Text is modelled as TLA+ strings built exactly as the f-strings build   *)
(* them (newline is the character "\n"); the working directory is a        *)
(* function from file names to the content written; the caller's mapping   *)
(* object is a variable because the serializers mutate it in place.        *)
(***************************************************************************)
EXTENDS Integers, Sequences, FiniteSets, TLC

VARIABLES files, mapping, original, last

vars == <<files, mapping, original, last>>

(***************************************************************************)
(* Bounds of the model.                                                    *)
(***************************************************************************)
MaxMapLen == 2      \* entries of the mapping the caller builds
MaxReal == 1        \* magnitude of the real constants

(***************************************************************************)
(* Python values that occur as constants and as mapping values.            *)
(***************************************************************************)
PyReal(x) == [t |-> "real", n |-> x, e |-> <<>>]
PyTuple(s) == [t |-> "tuple", n |-> 0, e |-> s]

RECURSIVE JoinComma(_)
JoinComma(s) ==
    IF Len(s) = 0 THEN ""
    ELSE IF Len(s) = 1 THEN ToString(s[1])
    ELSE ToString(s[1]) \o ", " \o JoinComma(Tail(s))

\* str(v) as '{}'.format(v) and f'{v}' render it
PyStr(v) ==
    IF v.t = "real" THEN ToString(v.n)
    ELSE IF Len(v.e) = 1 THEN "(" \o ToString(v.e[1]) \o ",)"
    ELSE "(" \o JoinComma(v.e) \o ")"

\* Format3 with the items separated by ", " as in a tuple's repr
Format3_Commas(v) ==
    IF v.t = "real" THEN [err |-> "TypeError", s |-> ""]
    ELSE IF Len(v.e) < 3 THEN [err |-> "IndexError", s |-> ""]
    ELSE [err |-> "",
          s |-> ToString(v.e[1]) \o ", " \o ToString(v.e[2]) \o ", "
                \o ToString(v.e[3])]

\* '{} {} {}'.format(*v): v must be iterable and supply three items;
\* further items are ignored by str.format
Format3(v) ==
    IF v.t = "real" THEN [err |-> "TypeError", s |-> ""]
    ELSE IF Len(v.e) < 3 THEN [err |-> "IndexError", s |-> ""]
    ELSE [err |-> "",
          s |-> ToString(v.e[1]) \o " " \o ToString(v.e[2]) \o " "
                \o ToString(v.e[3])]

(***************************************************************************)
(* Mappings (dict): a sequence of <<key, value>> in insertion order with   *)
(* distinct keys.                                                          *)
(***************************************************************************)
HasKey(m, k) == \E i \in DOMAIN m : m[i][1] = k
Lookup(m, k) == m[CHOOSE i \in DOMAIN m : m[i][1] = k][2]
\* m[k] = v
SetItem(m, k, v) ==
    IF HasKey(m, k)
    THEN [i \in DOMAIN m |-> IF m[i][1] = k THEN <<k, v>> ELSE m[i]]
    ELSE Append(m, <<k, v>>)

(***************************************************************************)
(* Parameters handed to the serializers.  kind is what isinstance sees:    *)
(* "Field" (df.Field), "dict" (the caller's mapping object), "Real",       *)
(* "tuple", "None", and "object" (not a field, but with a dim).            *)
(***************************************************************************)
Param(k, d, v) == [kind |-> k, dim |-> d, val |-> v]

NoVal == PyReal(0)

\* the objects that have an attribute dim
HaveDim(p) == p.kind \in {"Field", "object"}

(***************************************************************************)
(* The working directory.                                                  *)
(***************************************************************************)
\* FieldWrite that ignores the file name it is given
FieldWrite_FixedName(fs, filename, field, extend_scalar) ==
    [f \in (DOMAIN fs) \cup {"field.ovf"} |->
        IF f = "field.ovf"
        THEN [dim |-> field.dim, extend |-> extend_scalar]
        ELSE fs[f]]

\* field.write(filename, extend_scalar=...)
FieldWrite(fs, filename, field, extend_scalar) ==
    [f \in (DOMAIN fs) \cup {filename} |->
        IF f = filename THEN [dim |-> field.dim, extend |-> extend_scalar]
        ELSE fs[f]]

(***************************************************************************)
(* Text generators.                                                        *)
(***************************************************************************)
\* the for loop of mif_atlas_vector_field over value.items() from entry i on;
\* the first entry that cannot be formatted raises
RECURSIVE VectorRows(_, _)
VectorRows(value, i) ==
    IF i > Len(value) THEN [err |-> "", s |-> ""]
    ELSE IF value[i][1] = "default" THEN VectorRows(value, i + 1)
    ELSE LET f == Format3(value[i][2])
             rest == VectorRows(value, i + 1)
         IN  IF f.err # "" THEN f
             ELSE IF rest.err # "" THEN rest
             ELSE [err |-> "",
                   s |-> "    " \o value[i][1] \o " {" \o f.s \o "}\n"
                         \o rest.s]

mif_atlas_vector_field(value, name, atlas) ==
    IF ~HasKey(value, "default") THEN [err |-> "KeyError", s |-> ""]
    ELSE LET d == Format3(Lookup(value, "default"))
             rows == VectorRows(value, 1)
         IN  IF d.err # "" THEN d
             ELSE IF rows.err # "" THEN rows
             ELSE [err |-> "",
                   s |-> "# " \o name \o "\n"
                         \o "Specify Oxs_AtlasVectorField:" \o name \o " {\n"
                         \o "  atlas :" \o atlas \o "\n"
                         \o "  default_value {" \o d.s \o "}\n"
                         \o "  values {\n"
                         \o rows.s
                         \o "  }"
                         \o "}\n\n"]

\* ScalarRows without the test region != 'default'
RECURSIVE ScalarRows_KeepDefault(_, _)
ScalarRows_KeepDefault(value, i) ==
    IF i > Len(value) THEN ""
    ELSE "    " \o value[i][1] \o " " \o PyStr(value[i][2]) \o "\n"
         \o ScalarRows_KeepDefault(value, i + 1)

\* the for loop of mif_atlas_scalar_field over value.items() from entry i on
RECURSIVE ScalarRows(_, _)
ScalarRows(value, i) ==
    IF i > Len(value) THEN ""
    ELSE IF value[i][1] = "default" THEN ScalarRows(value, i + 1)
    ELSE "    " \o value[i][1] \o " " \o PyStr(value[i][2]) \o "\n"
         \o ScalarRows(value, i + 1)

\* mif_atlas_scalar_field whose loop misses the mapping's first entry
mif_atlas_scalar_field_SkipFirst(value, name, atlas) ==
    IF ~HasKey(value, "default") THEN [err |-> "KeyError", s |-> ""]
    ELSE [err |-> "",
          s |-> "# " \o name \o "\n"
                \o "Specify Oxs_AtlasScalarField:" \o name \o " {\n"
                \o "  atlas :" \o atlas \o "\n"
                \o "  default_value " \o PyStr(Lookup(value, "default")) \o "\n"
                \o "  values {\n"
                \o ScalarRows(value, 2)
                \o "  }"
                \o "}\n\n"]

mif_atlas_scalar_field(value, name, atlas) ==
    IF ~HasKey(value, "default") THEN [err |-> "KeyError", s |-> ""]
    ELSE [err |-> "",
          s |-> "# " \o name \o "\n"
                \o "Specify Oxs_AtlasScalarField:" \o name \o " {\n"
                \o "  atlas :" \o atlas \o "\n"
                \o "  default_value " \o PyStr(Lookup(value, "default")) \o "\n"
                \o "  values {\n"
                \o ScalarRows(value, 1)
                \o "  }"
                \o "}\n\n"]

\* file_vector_field that declares the block under the file's name
file_vector_field_FileAsName(filename, name, atlas) ==
    "# " \o name \o " file\n"
    \o "Specify Oxs_FileVectorField:" \o filename \o " {\n"
    \o "  file " \o filename \o "\n"
    \o "  atlas :" \o atlas \o "\n"
    \o "}\n\n"

file_vector_field(filename, name, atlas) ==
    "# " \o name \o " file\n"
    \o "Specify Oxs_FileVectorField:" \o name \o " {\n"
    \o "  file " \o filename \o "\n"
    \o "  atlas :" \o atlas \o "\n"
    \o "}\n\n"

vector_norm_scalar_field(field, name) ==
    "# " \o name \o "\n"
    \o "Specify Oxs_VecMagScalarField:" \o name \o " {\n"
    \o "    field :" \o field \o "\n"
    \o "}\n\n"

(***************************************************************************)
(* Outcome of one call: how it ended, what it returned, and the working    *)
(* directory and the caller's mapping object as the call left them.        *)
(***************************************************************************)
Return(text, refs, fs, mp) ==
    [status |-> "returned", text |-> text, refs |-> refs,
     files |-> fs, mapping |-> mp]

\* falling off the end of a function returns None
ReturnNone(fs, mp) ==
    [status |-> "returned_None", text |-> "", refs |-> <<>>,
     files |-> fs, mapping |-> mp]

Raise(err, fs, mp) ==
    [status |-> err, text |-> "", refs |-> <<>>,
     files |-> fs, mapping |-> mp]

\* names bound at module level in util.py
Globals ==
    {"numbers", "np", "df", "box_atlas", "mif_atlas_vector_field",
     "mif_atlas_scalar_field", "setup_m0", "file_vector_field",
     "vector_norm_scalar_field", "setup_scalar_parameter",
     "setup_vector_parameter"}

\* setup_m0 that looks at dim before it looks at the type
setup_m0_DimFirst(field, name, fs, mp) ==
    IF HaveDim(field) /\ field.dim # 3 THEN Raise("ValueError", fs, mp)
    ELSE IF field.kind # "Field" THEN Raise("TypeError", fs, mp)
    ELSE Return(file_vector_field(name \o ".omf", name, "main_atlas")
                    \o vector_norm_scalar_field(name, name \o "_norm"),
                <<name, name \o "_norm">>,
                FieldWrite(fs, name \o ".omf", field, FALSE),
                mp)

setup_m0(field, name, fs, mp) ==
    IF field.kind # "Field" THEN Raise("TypeError", fs, mp)
    ELSE IF field.dim # 3 THEN Raise("ValueError", fs, mp)
    ELSE Return(file_vector_field(name \o ".omf", name, "main_atlas")
                    \o vector_norm_scalar_field(name, name \o "_norm"),
                <<name, name \o "_norm">>,
                FieldWrite(fs, name \o ".omf", field, FALSE),
                mp)

setup_scalar_parameter(parameter, name, fs, mp) ==
    IF parameter.kind = "Field" THEN
        IF parameter.dim # 1 THEN Raise("ValueError", fs, mp)
        ELSE Return(file_vector_field(name \o ".ovf", name, "main_atlas")
                        \o vector_norm_scalar_field(name, name \o "_norm"),
                    <<name \o "_norm">>,
                    FieldWrite(fs, name \o ".ovf", parameter, TRUE),
                    mp)
    ELSE IF parameter.kind = "dict" THEN
        LET mp1 == IF ~HasKey(mp, "default")
                   THEN SetItem(mp, "default", PyReal(0)) ELSE mp
            mif == mif_atlas_scalar_field(mp1, name, "main_atlas")
        IN  IF mif.err # "" THEN Raise(mif.err, fs, mp1)
            ELSE Return(mif.s, <<name>>, fs, mp1)
    ELSE IF parameter.kind = "Real" THEN
        Return("", <<PyStr(parameter.val)>>, fs, mp)
    ELSE ReturnNone(fs, mp)

setup_vector_parameter(parameter, name, fs, mp) ==
    IF parameter.kind = "Field" THEN
        IF parameter.dim # 3 THEN Raise("ValueError", fs, mp)
        ELSE LET fs1 == FieldWrite(fs, name \o ".ovf", parameter, FALSE)
             IN  IF "mif_file_vector_field" \notin Globals
                 THEN Raise("NameError", fs1, mp)
                 ELSE Return(file_vector_field(name \o ".ovf", name,
                                               "main_atlas"),
                             <<name>>, fs1, mp)
    ELSE IF parameter.kind = "dict" THEN
        LET mp1 == IF ~HasKey(mp, "default")
                   THEN SetItem(mp, "default", PyTuple(<<0, 0, 0>>)) ELSE mp
            mif == mif_atlas_vector_field(mp1, name, "main_atlas")
        IN  IF mif.err # "" THEN Raise(mif.err, fs, mp1)
            ELSE Return(mif.s, <<name>>, fs, mp1)
    ELSE IF parameter.kind = "tuple" THEN
        LET f == Format3(parameter.val)
        IN  IF f.err # "" THEN Raise(f.err, fs, mp)
            ELSE Return("", <<"{" \o f.s \o "}">>, fs, mp)
    ELSE ReturnNone(fs, mp)

(***************************************************************************)
(* The inputs the model draws from.                                        *)
(***************************************************************************)
Names == {"Ms", "H"}

MapKeys == {"default", "core", "shell"}

MapVals == {PyReal(5), PyTuple(<<1, 0, 0>>)}

Tuples ==
    {PyTuple(<<0, -MaxReal, 25>>), PyTuple(<<1, 2>>), PyTuple(<<1, 2, 3, 4>>)}

Distinct(m) == \A i, j \in DOMAIN m : m[i][1] = m[j][1] => i = j

\* the mappings a caller can build: distinct keys, in any order
Mappings ==
    UNION {{m \in [1..n -> MapKeys \X MapVals] : Distinct(m)} :
              n \in 0..MaxMapLen}

\* the dims that tell the serializers apart: 1 (scalar) and 3 (vector)
Parameters ==
    {Param("Field", d, NoVal) : d \in {1, 3}}
    \cup {Param("object", d, NoVal) : d \in {1, 3}}
    \cup {Param("dict", 0, NoVal), Param("None", 0, NoVal)}
    \cup {Param("Real", 0, PyReal(x)) : x \in {-MaxReal, 0, MaxReal}}
    \cup {Param("tuple", 0, v) : v \in Tuples}

(***************************************************************************)
(* The state machine: the caller makes one serializer call after another.  *)
(* last records the most recent call and what it returned.                 *)
(***************************************************************************)
NoCall ==
    [op |-> "none", parameter |-> Param("None", 0, NoVal), name |-> "",
     given |-> <<>>, status |-> "none", text |-> "", refs |-> <<>>]

Init ==
    /\ files = <<>>
    /\ mapping \in Mappings
    /\ original = mapping
    /\ last = NoCall

CallSetupM0 ==
    \E parameter \in Parameters, name \in Names :
        LET r == setup_m0(parameter, name, files, mapping)
        IN  /\ files' = r.files
            /\ mapping' = r.mapping
            /\ last' = [op |-> "setup_m0", parameter |-> parameter,
                        name |-> name, given |-> mapping,
                        status |-> r.status, text |-> r.text,
                        refs |-> r.refs]
            /\ UNCHANGED original

CallSetupScalarParameter ==
    \E parameter \in Parameters, name \in Names :
        LET r == setup_scalar_parameter(parameter, name, files, mapping)
        IN  /\ files' = r.files
            /\ mapping' = r.mapping
            /\ last' = [op |-> "setup_scalar_parameter",
                        parameter |-> parameter, name |-> name,
                        given |-> mapping, status |-> r.status,
                        text |-> r.text, refs |-> r.refs]
            /\ UNCHANGED original

CallSetupVectorParameter ==
    \E parameter \in Parameters, name \in Names :
        LET r == setup_vector_parameter(parameter, name, files, mapping)
        IN  /\ files' = r.files
            /\ mapping' = r.mapping
            /\ last' = [op |-> "setup_vector_parameter",
                        parameter |-> parameter, name |-> name,
                        given |-> mapping, status |-> r.status,
                        text |-> r.text, refs |-> r.refs]
            /\ UNCHANGED original

Next ==
    \/ CallSetupM0
    \/ CallSetupScalarParameter
    \/ CallSetupVectorParameter

Spec == Init /\ [][Next]_vars

TypeOK == last.status \in {"none", "returned", "returned_None", "TypeError",
                           "ValueError", "NameError", "IndexError"}

(***************************************************************************)
(* Reading a text fragment back: lines, block declarations, references.    *)
(***************************************************************************)
StartsWith(s, p) == Len(s) >= Len(p) /\ SubSeq(s, 1, Len(p)) = p
EndsWith(s, p) ==
    Len(s) >= Len(p) /\ SubSeq(s, Len(s) - Len(p) + 1, Len(s)) = p
After(s, p) == SubSeq(s, Len(p) + 1, Len(s))

\* position of the first occurrence of the character c in s from i on, or 0
IndexOf(s, c, i) ==
    LET at == {j \in i..Len(s) : SubSeq(s, j, j) = c}
    IN  IF at = {} THEN 0 ELSE CHOOSE j \in at : \A k \in at : j <= k

RECURSIVE SplitLines(_, _)
SplitLines(s, start) ==
    LET nl == IndexOf(s, "\n", start)
    IN  IF start > Len(s) THEN <<>>
        ELSE IF nl = 0 THEN <<SubSeq(s, start, Len(s))>>
        ELSE <<SubSeq(s, start, nl - 1)>> \o SplitLines(s, nl + 1)

Lines(s) == SplitLines(s, 1)

LStrip(s) ==
    LET at == {j \in 1..Len(s) : SubSeq(s, j, j) # " "}
    IN  IF at = {} THEN ""
        ELSE SubSeq(s, CHOOSE j \in at : \A k \in at : j <= k, Len(s))

IsSpecify(l) == StartsWith(l, "Specify ") /\ EndsWith(l, " {")

\* the <name> of a line "Specify <Type>:<name> {"
SpecifyName(l) ==
    LET body == SubSeq(l, Len("Specify ") + 1, Len(l) - Len(" {"))
    IN  SubSeq(body, IndexOf(body, ":", 1) + 1, Len(body))

\* the <Type> of a line "Specify <Type>:<name> {"
SpecifyType(l) ==
    LET body == SubSeq(l, Len("Specify ") + 1, Len(l) - Len(" {"))
    IN  SubSeq(body, 1, IndexOf(body, ":", 1) - 1)

IsFieldRef(l) == StartsWith(LStrip(l), "field :")
FieldRefName(l) == After(LStrip(l), "field :")

\* decimal numeral of an integer, digit by digit
Digit(d) == <<"0", "1", "2", "3", "4", "5", "6", "7", "8", "9">>[d + 1]

RECURSIVE Numeral(_)
Numeral(n) ==
    IF n < 0 THEN "-" \o Numeral(-n)
    ELSE IF n < 10 THEN Digit(n)
    ELSE Numeral(n \div 10) \o Digit(n % 10)

Called == last.op # "none"
Failed(st) == st \notin {"none", "returned", "returned_None"}

(***************************************************************************)
(* C1: setup_vector_parameter called with a spatial field of cardinality 3 *)
(* succeeds: it writes {name}.ovf, returns a non-empty text declaring a    *)
(* file-backed vector field {name}, and returns {name} as the reference.   *)
(***************************************************************************)
C1_VectorFieldSucceeds ==
    (/\ last.op = "setup_vector_parameter"
     /\ last.parameter.kind = "Field"
     /\ last.parameter.dim = 3)
    => /\ last.status = "returned"
       /\ last.text # ""
       /\ \E i \in DOMAIN Lines(last.text) :
              LET l == Lines(last.text)[i]
              IN  /\ IsSpecify(l)
                  /\ SpecifyType(l) = "Oxs_FileVectorField"
                  /\ SpecifyName(l) = last.name
       /\ last.refs = <<last.name>>
       /\ (last.name \o ".ovf") \in DOMAIN files

(***************************************************************************)
(* C2: a serializer call that ends in an error leaves the set of files in  *)
(* the working directory unchanged and returns no text fragment.           *)
(***************************************************************************)
C2_Step ==
    Failed(last'.status) => /\ files' = files
                            /\ last'.text = ""
C2_FailedCallLeavesNoFile == [][C2_Step]_vars

(***************************************************************************)
(* C3: setup_m0 raises TypeError exactly when the input is not a spatial   *)
(* field, ValueError exactly when it is a spatial field with dim # 3, and  *)
(* otherwise writes {name}.omf and returns (text, name, name_norm); the    *)
(* failing calls write nothing.                                            *)
(***************************************************************************)
C3_Step ==
    last'.op = "setup_m0" =>
        /\ (last'.status = "TypeError") <=> (last'.parameter.kind # "Field")
        /\ (last'.status = "ValueError") <=>
               (last'.parameter.kind = "Field" /\ last'.parameter.dim # 3)
        /\ Failed(last'.status) => files' = files /\ last'.text = ""
        /\ ~Failed(last'.status) =>
               /\ last'.status = "returned"
               /\ last'.text # ""
               /\ last'.refs = <<last'.name, last'.name \o "_norm">>
               /\ DOMAIN files' = DOMAIN files \cup {last'.name \o ".omf"}
               /\ files'[last'.name \o ".omf"].dim = 3
C3_SetupM0Errors == [][C3_Step]_vars

C3_Witness ==
    /\ last.op = "setup_m0"
    /\ last.status = "returned"
    /\ (last.name \o ".omf") \in DOMAIN files

(***************************************************************************)
(* C4: an input of an unsupported kind makes the call end in an error; no  *)
(* such call returns normally.                                             *)
(***************************************************************************)
Unsupported(op, parameter) ==
    \/ /\ op = "setup_scalar_parameter"
       /\ parameter.kind \notin {"Field", "dict", "Real"}
    \/ /\ op = "setup_vector_parameter"
       /\ \/ parameter.kind \notin {"Field", "dict", "tuple"}
          \/ parameter.kind = "tuple" /\ Len(parameter.val.e) # 3

C4_UnsupportedKindAborts ==
    (Called /\ Unsupported(last.op, last.parameter)) => Failed(last.status)

(***************************************************************************)
(* C5: the outcome of a call is the same as if it were the first call made *)
(* with the mapping as the caller originally built it.                     *)
(***************************************************************************)
Apply(op, parameter, name, fs, mp) ==
    IF op = "setup_m0" THEN setup_m0(parameter, name, fs, mp)
    ELSE IF op = "setup_scalar_parameter"
    THEN setup_scalar_parameter(parameter, name, fs, mp)
    ELSE setup_vector_parameter(parameter, name, fs, mp)

SameOutcome(r) ==
    /\ r.status = last.status
    /\ r.text = last.text
    /\ r.refs = last.refs

C5_CallsIndependent ==
    Called =>
        SameOutcome(Apply(last.op, last.parameter, last.name, files, original))

(***************************************************************************)
(* C6: for a mapping that lacks a default key, setup_scalar_parameter      *)
(* returns what it returns for the mapping extended with default = 0, and  *)
(* setup_vector_parameter what it returns for the mapping extended with    *)
(* default = (0, 0, 0), wherever the default entry sits in the mapping.    *)
(***************************************************************************)
InsertAt(m, i, entry) ==
    SubSeq(m, 1, i - 1) \o <<entry>> \o SubSeq(m, i, Len(m))

ZeroFor(op) ==
    IF op = "setup_scalar_parameter" THEN PyReal(0)
    ELSE PyTuple(<<0, 0, 0>>)

C6_DefaultInjection ==
    (/\ last.op \in {"setup_scalar_parameter", "setup_vector_parameter"}
     /\ last.parameter.kind = "dict"
     /\ ~HasKey(last.given, "default"))
    => \A i \in 1..(Len(last.given) + 1) :
           SameOutcome(Apply(last.op, last.parameter, last.name, files,
                             InsertAt(last.given, i,
                                      <<"default", ZeroFor(last.op)>>)))

C6_Witness ==
    /\ last.op = "setup_vector_parameter"
    /\ last.parameter.kind = "dict"
    /\ ~HasKey(last.given, "default")
    /\ Len(last.given) >= 2
    /\ last.status = "returned"

(***************************************************************************)
(* C7: for every successful call that returns a non-empty text, every      *)
(* returned reference is the name of exactly one Specify block of the      *)
(* text, and every "field :<x>" line of the text names a block declared in *)
(* the same text.                                                          *)
(***************************************************************************)
Declares(ls, x) == {i \in DOMAIN ls : IsSpecify(ls[i]) /\ SpecifyName(ls[i]) = x}

C7_ReferencesDeclared ==
    (last.status = "returned" /\ last.text # "") =>
        LET ls == Lines(last.text)
        IN  /\ \A k \in DOMAIN last.refs :
                   Cardinality(Declares(ls, last.refs[k])) = 1
            /\ \A i \in DOMAIN ls :
                   IsFieldRef(ls[i]) => Declares(ls, FieldRefName(ls[i])) # {}

C7_Witness ==
    /\ last.op = "setup_scalar_parameter"
    /\ last.parameter.kind = "Field"
    /\ last.status = "returned"
    /\ last.refs = <<last.name \o "_norm">>
    /\ \E i \in DOMAIN Lines(last.text) : IsFieldRef(Lines(last.text)[i])

(***************************************************************************)
(* C8: for a real number x, setup_scalar_parameter returns ('', str(x));   *)
(* for a 3-element vector (a, b, c), setup_vector_parameter returns        *)
(* ('', '{a b c}') with single spaces and none inside the braces.          *)
(***************************************************************************)
C8_Constants ==
    /\ (last.op = "setup_scalar_parameter" /\ last.parameter.kind = "Real")
       => /\ last.status = "returned"
          /\ last.text = ""
          /\ last.refs = <<Numeral(last.parameter.val.n)>>
    /\ (/\ last.op = "setup_vector_parameter"
        /\ last.parameter.kind = "tuple"
        /\ Len(last.parameter.val.e) = 3)
       => LET v == last.parameter.val.e
          IN  /\ last.status = "returned"
              /\ last.text = ""
              /\ last.refs = <<"{" \o Numeral(v[1]) \o " " \o Numeral(v[2])
                               \o " " \o Numeral(v[3]) \o "}">>

C8_Witness ==
    /\ last.op = "setup_vector_parameter"
    /\ last.parameter.kind = "tuple"
    /\ Len(last.parameter.val.e) = 3
    /\ last.status = "returned"
    /\ Len(last.refs[1]) > Len("{0 0 0}")

(***************************************************************************)
(* C9: for a region mapping, setup_scalar_parameter returns a text that    *)
(* declares one per-region scalar field {name} over the shared atlas whose *)
(* default_value is the mapping's default entry and whose values group has *)
(* exactly one row "region value" per non-default key, in the mapping's    *)
(* order, and no row for default; the reference is {name}.                 *)
(***************************************************************************)
\* the entries of m from i on whose key is not default, as <<key, text>>
RECURSIVE RegionEntries(_, _)
RegionEntries(m, i) ==
    IF i > Len(m) THEN <<>>
    ELSE IF m[i][1] = "default" THEN RegionEntries(m, i + 1)
    ELSE <<<<m[i][1], PyStr(m[i][2])>>>> \o RegionEntries(m, i + 1)

\* a row "    region value" read as <<region, value>>
ReadRow(l) ==
    LET r == LStrip(l)
        sp == IndexOf(r, " ", 1)
    IN  <<SubSeq(r, 1, sp - 1), SubSeq(r, sp + 1, Len(r))>>

C9_RegionScalarField ==
    (last.op = "setup_scalar_parameter" /\ last.parameter.kind = "dict") =>
        LET ls == Lines(last.text)
            m == last.given
            dflt == IF HasKey(m, "default") THEN Lookup(m, "default")
                    ELSE PyReal(0)
            open == {i \in DOMAIN ls : ls[i] = "  values {"}
            close == {i \in DOMAIN ls : ls[i] = "  }}"}
        IN  /\ last.status = "returned"
            /\ last.refs = <<last.name>>
            /\ Cardinality({i \in DOMAIN ls : IsSpecify(ls[i])}) = 1
            /\ \E i \in DOMAIN ls :
                   /\ IsSpecify(ls[i])
                   /\ SpecifyType(ls[i]) = "Oxs_AtlasScalarField"
                   /\ SpecifyName(ls[i]) = last.name
            /\ \E i \in DOMAIN ls : ls[i] = "  atlas :main_atlas"
            /\ \E i \in DOMAIN ls :
                   ls[i] = "  default_value " \o PyStr(dflt)
            /\ Cardinality(open) = 1
            /\ Cardinality(close) = 1
            /\ LET o == CHOOSE i \in open : TRUE
                   c == CHOOSE i \in close : TRUE
               IN  /\ o < c
                   /\ [k \in 1..(c - o - 1) |-> ReadRow(ls[o + k])]
                          = RegionEntries(m, 1)

C9_Witness ==
    /\ last.op = "setup_scalar_parameter"
    /\ last.parameter.kind = "dict"
    /\ HasKey(last.given, "default")
    /\ last.given[1][1] = "default"
    /\ Len(RegionEntries(last.given, 1)) >= 1
    /\ last.status = "returned"

(***************************************************************************)
(* C10: the set of files changes only through a call whose input is a      *)
(* spatial field; a successful call with a spatial field adds or           *)
(* overwrites exactly one file, {name}.ovf for the parameter serializers   *)
(* and {name}.omf for setup_m0.                                            *)
(***************************************************************************)
Target(op, name) ==
    IF op = "setup_m0" THEN name \o ".omf" ELSE name \o ".ovf"

C10_Step ==
    /\ last'.parameter.kind # "Field" => files' = files
    /\ (last'.parameter.kind = "Field" /\ last'.status = "returned") =>
           LET fn == Target(last'.op, last'.name)
           IN  /\ DOMAIN files' = DOMAIN files \cup {fn}
               /\ \A f \in DOMAIN files \ {fn} : files'[f] = files[f]
C10_FilesOnlyFromFields == [][C10_Step]_vars

C10_Witness ==
    /\ last.parameter.kind = "Field"
    /\ last.status = "returned"
    /\ last.op = "setup_scalar_parameter"
    /\ Cardinality(DOMAIN files) >= 2
    /\ (last.name \o ".ovf") \in DOMAIN files

====
